---- MODULE Spec2Model ----
(***************************************************************************)
(* A model of the converter combinators of biryani/baseconv.py.            *)
(*                                                                         *)
(* A Python value is a record with a tag; a converter is a record naming   *)
(* the factory that built it together with the factory's arguments; the    *)
(* call converter(value, state = state) is the operator Call, which        *)
(* yields the returned (value, error) pair, the exception raised if any,   *)
(* and the log of every converter invocation the call made.                *)
(***************************************************************************)
EXTENDS Integers, Sequences, FiniteSets, TLC

VARIABLES converter, value, state, result, pc, history

vars == <<converter, value, state, result, pc, history>>

(***************************************************************************)
(* Bounds of the model.                                                    *)
(***************************************************************************)
MaxPipe == 3
MaxLen == 2
MaxCalls == 3
MaxText == 4

(***************************************************************************)
(* Python values.                                                          *)
(***************************************************************************)
\* Every value has the same fields, each holding one kind of payload: n the
\* number of an int, s the text of a str, items the items of a sequence,
\* map the items of a mapping with str keys, imap those of a mapping with
\* int keys.
EmptyMapping == [k \in {} |-> 0]
PyValue(tag, n, s, items, map, imap) ==
    [tag |-> tag, n |-> n, s |-> s, items |-> items, map |-> map, imap |-> imap]

None == PyValue("None", 0, "", <<>>, EmptyMapping, EmptyMapping)
PyInt(n) == PyValue("int", n, "", <<>>, EmptyMapping, EmptyMapping)
PyStr(s) == PyValue("str", 0, s, <<>>, EmptyMapping, EmptyMapping)
PyList(items) == PyValue("list", 0, "", items, EmptyMapping, EmptyMapping)
PyDict(map) == PyValue("dict", 0, "", <<>>, map, EmptyMapping)
\* A dict whose keys are positions.
PyIntDict(imap) == PyValue("dict", 0, "", <<>>, EmptyMapping, imap)

\* A string whose characters matter: items holds them one by one.
PyUnicode(chars) == PyValue("unicode", 0, "", chars, EmptyMapping, EmptyMapping)
\* A tuple, and a set: items holds its members in the order of iteration.
PyTuple(items) == PyValue("tuple", 0, "", items, EmptyMapping, EmptyMapping)
PySet(items) == PyValue("set", 0, "", items, EmptyMapping, EmptyMapping)
\* The local variable of a function before its first assignment.
Unbound == PyValue("unbound", 0, "", <<>>, EmptyMapping, EmptyMapping)

\* The members of set(items): each item once.
RECURSIVE Dedup(_)
Dedup(items) ==
    IF items = <<>> THEN <<>>
    ELSE LET rest == Dedup(SubSeq(items, 1, Len(items) - 1))
             last == items[Len(items)]
         IN  IF \E j \in 1..Len(rest) : rest[j] = last THEN rest ELSE Append(rest, last)

\* constructor(convertered_values): the container type called on the
\* accumulated mapping, or on the accumulated list.
ConstructMapping(constructor, map) ==
    PyValue(constructor, 0, "", <<>>, map, EmptyMapping)
ConstructSequence(constructor, items) ==
    PyValue(constructor, 0, "", IF constructor = "set" THEN Dedup(items) ELSE items,
            EmptyMapping, EmptyMapping)

\* values.get(name)
Get(values, name) == IF name \in DOMAIN values.map THEN values.map[name] ELSE None

\* mapping[name] = item
Put(mapping, name, item) ==
    [k \in (DOMAIN mapping) \cup {name} |-> IF k = name THEN item ELSE mapping[k]]

(***************************************************************************)
(* The context: states.default_state and a caller-supplied state whose     *)
(* translation function is not the identity.                               *)
(***************************************************************************)
default_state == "default_state"
custom_state == "custom_state"
States == {default_state, custom_state}

\* state._(msg)
Translate(st, msg) == IF st = default_state THEN msg ELSE "fr:" \o msg

(***************************************************************************)
(* What a call yields.                                                     *)
(***************************************************************************)
Ret(v, e) == [value |-> v, error |-> e, raised |-> "None", calls |-> <<>>]
Raise(exc) == [value |-> None, error |-> None, raised |-> exc, calls |-> <<>>]
WithCalls(r, calls) == [r EXCEPT !.calls = calls]

\* The invocations made beneath a call are one level deeper than the call.
Deeper(calls) == [i \in 1..Len(calls) |-> [calls[i] EXCEPT !.depth = @ + 1]]

(***************************************************************************)
(* Converters as values.                                                   *)
(***************************************************************************)
\* A None entry where a converter is expected.
NoConverter == [op |-> "None"]
\* The literal 'ignore' given as the default of a structural combinator.
Ignore == [op |-> "ignore"]

noop_ == [op |-> "noop"]
require_ == [op |-> "require"]
default(constant) == [op |-> "default", constant |-> constant]
set_value(constant) == [op |-> "set_value", constant |-> constant]
fail(msg) == [op |-> "fail", msg |-> msg]
pipe(converters) == [op |-> "pipe", converters |-> converters]

\* The table of a structured_mapping, None converters removed.
MappingTable(converters) ==
    [name \in {n \in DOMAIN converters : converters[n] # NoConverter} |-> converters[name]]

structured_mapping(converters, constructor, dflt, keep_empty) ==
    [op |-> "structured_mapping", table |-> MappingTable(converters),
     constructor |-> constructor, dflt |-> dflt, keep_empty |-> keep_empty]

\* SequenceList keeping the None entries.
SequenceList_keep(converters) == converters

\* The list of a structured_sequence, None converters removed.
SequenceList(converters) == SelectSeq(converters, LAMBDA c : c # NoConverter)

structured_sequence(converters, constructor, dflt, keep_empty) ==
    [op |-> "structured_sequence", converters |-> SequenceList(converters),
     constructor |-> constructor, dflt |-> dflt, keep_empty |-> keep_empty]

uniform_sequence(conv, constructor, keep_empty, keep_null_items) ==
    [op |-> "uniform_sequence", converter |-> conv, constructor |-> constructor,
     keep_empty |-> keep_empty, keep_null_items |-> keep_null_items]

\* A Python function given to test or function: a named lambda of the
\* source with the value it closes over (None when it closes over nothing).
Lambda(name, arg) == [name |-> name, arg |-> arg]
\* None given where a function is expected.
NoFunction == Lambda("None", None)

\* msg.format(arg), for the messages of the source, whose placeholder {0}
\* ends the message.
Format(msg, arg) == msg \o arg

test(func, error, handle_none) ==
    [op |-> "test", function |-> func, error |-> error, handle_none |-> handle_none]
function(func, handle_none) ==
    [op |-> "function", function |-> func, handle_none |-> handle_none]
condition(tst, ok, err) ==
    [op |-> "condition", test_converter |-> tst, ok_converter |-> ok,
     error_converter |-> err]
first_match(converters) == [op |-> "first_match", converters |-> converters]

test_isinstance(class_or_classes) ==
    test(Lambda("isinstance", PyStr(class_or_classes)),
         Format("Value is not an instance of ", class_or_classes), FALSE)
translate(conversions) == function(Lambda("translate", conversions), FALSE)
extract_when_singleton ==
    condition(test(Lambda("is_singleton", None), "Test failed", FALSE),
              function(Lambda("first_item", None), FALSE),
              NoConverter)
item_or_sequence(conv, constructor, keep_null_items) ==
    condition(test_isinstance(constructor),
              pipe(<<uniform_sequence(conv, constructor, FALSE, keep_null_items),
                     extract_when_singleton>>),
              conv)

cleanup_empty_ == [op |-> "cleanup_empty"]
cleanup_line == pipe(<<function(Lambda("strip", None), FALSE), cleanup_empty_>>)

to_value(conv, ignore_error) ==
    [op |-> "to_value", converter |-> conv, ignore_error |-> ignore_error]

(***************************************************************************)
(* Leaf converters.                                                        *)
(***************************************************************************)
noop(v, st) == Ret(v, None)

\* The translation function state._ as it appears in the invocation log.
Underscore == [op |-> "_"]

\* return None, state._(msg): the call of state._ is logged like the call of
\* a converter, with the message it was given and the text it returned.
Failure(st, msg) ==
    WithCalls(Ret(None, PyStr(Translate(st, msg))),
              <<[converter |-> Underscore, value |-> PyStr(msg), state |-> st,
                 out |-> PyStr(Translate(st, msg)), error |-> None,
                 raised |-> "None", depth |-> 0]>>)

\* fail_converter returning its message as it is, state._ not called.
fail_converter_untranslated(msg, v, st) == Ret(None, PyStr(msg))

require(v, st) ==
    IF v = None THEN Failure(st, "Missing value") ELSE Ret(v, None)

default_converter(constant, v, st) ==
    IF v = None THEN Ret(constant, None) ELSE Ret(v, None)

set_value_converter(constant, v, st) ==
    IF v # None THEN Ret(constant, None) ELSE Ret(None, None)

fail_converter(msg, v, st) == Failure(st, msg)

\* Python's True and False, and the truth value of a value.
PyTrue == PyInt(1)
PyFalse == PyInt(0)
PyBool(b) == IF b THEN PyTrue ELSE PyFalse
Truthy(v) ==
    CASE v.tag = "None" -> FALSE
      [] v.tag = "int" -> v.n # 0
      [] v.tag = "str" -> v.s # ""
      [] v.tag \in {"list", "tuple", "set", "unicode"} -> v.items # <<>>
      [] OTHER -> DOMAIN v.map # {} \/ DOMAIN v.imap # {}

IsSequence(v) == v.tag \in {"list", "tuple"}
\* isinstance(v, (list, set, tuple))
IsContainer(v) == v.tag \in {"list", "set", "tuple"}

\* cleanup_empty(value, state)
cleanup_empty(v, st) == Ret(IF Truthy(v) THEN v ELSE None, None)

RECURSIVE lstrip(_)
RECURSIVE rstrip(_)

\* The characters str.strip() removes.
IsSpace(ch) == ch.s \in {" ", "\t"}

\* strip removing at most one character at each end.
strip_once(chars) ==
    LET l == IF chars # <<>> /\ IsSpace(Head(chars)) THEN Tail(chars) ELSE chars
    IN  IF l # <<>> /\ IsSpace(l[Len(l)]) THEN SubSeq(l, 1, Len(l) - 1) ELSE l

lstrip(chars) ==
    IF chars # <<>> /\ IsSpace(Head(chars)) THEN lstrip(Tail(chars)) ELSE chars
rstrip(chars) ==
    IF chars # <<>> /\ IsSpace(chars[Len(chars)])
    THEN rstrip(SubSeq(chars, 1, Len(chars) - 1)) ELSE chars
\* value.strip()
strip(chars) == rstrip(lstrip(chars))

\* function(value) for the lambdas of the source: the value returned, or
\* the exception raised (len() of an int, [0] of a set, [0] of an empty
\* list, a list looked up in a dict).
ApplyFunction(func, v) ==
    CASE func.name = "isinstance" ->
            [value |-> PyBool(v.tag = func.arg.s), raised |-> "None"]
      [] func.name = "is_singleton" ->
            IF IsSequence(v)
            THEN [value |-> PyBool(Len(v.items) = 1 /\ ~IsContainer(v.items[1])),
                  raised |-> "None"]
            ELSE IF v.tag = "unicode"
            THEN [value |-> PyBool(Len(v.items) = 1), raised |-> "None"]
            ELSE IF v.tag = "set" /\ Len(v.items) # 1
            THEN [value |-> PyFalse, raised |-> "None"]
            ELSE [value |-> None, raised |-> "TypeError"]
      [] func.name = "first_item" ->
            IF IsContainer(v)
            THEN IF v.items # <<>> THEN [value |-> v.items[1], raised |-> "None"]
                 ELSE [value |-> None, raised |-> "IndexError"]
            ELSE [value |-> None, raised |-> "TypeError"]
      [] func.name = "strip" ->
            IF v.tag = "unicode"
            THEN [value |-> PyUnicode(strip(v.items)), raised |-> "None"]
            ELSE [value |-> None, raised |-> "AttributeError"]
      [] func.name = "translate" ->
            IF v.tag = "list" /\ func.arg # None
            THEN [value |-> None, raised |-> "TypeError"]
            ELSE [value |-> IF v = None \/ func.arg = None \/ v.tag # "int"
                               \/ v.n \notin DOMAIN func.arg.imap
                            THEN v ELSE func.arg.imap[v.n],
                  raised |-> "None"]

\* test_converter returning the value together with the error.
test_converter_echo(func, error, handle_none, v, st) ==
    IF (v = None /\ ~handle_none) \/ func = NoFunction THEN Ret(v, None)
    ELSE LET f == ApplyFunction(func, v) IN
         IF f.raised # "None" THEN Raise(f.raised)
         ELSE IF Truthy(f.value) THEN Ret(v, None)
         ELSE [Failure(st, error) EXCEPT !.value = v]

\* test_converter applying its function to None as to any value.
test_converter_nonone(func, error, handle_none, v, st) ==
    IF func = NoFunction THEN Ret(v, None)
    ELSE LET f == ApplyFunction(func, v) IN
         IF f.raised # "None" THEN Raise(f.raised)
         ELSE IF Truthy(f.value) THEN Ret(v, None)
         ELSE Failure(st, error)

test_converter(func, error, handle_none, v, st) ==
    IF (v = None /\ ~handle_none) \/ func = NoFunction THEN Ret(v, None)
    ELSE LET f == ApplyFunction(func, v) IN
         IF f.raised # "None" THEN Raise(f.raised)
         ELSE IF Truthy(f.value) THEN Ret(v, None)
         ELSE Failure(st, error)

function_converter(func, handle_none, v, st) ==
    IF (v = None /\ ~handle_none) \/ func = NoFunction THEN Ret(v, None)
    ELSE LET f == ApplyFunction(func, v) IN
         IF f.raised # "None" THEN Raise(f.raised) ELSE Ret(f.value, None)

(***************************************************************************)
(* The call converter(value, state = state), and the combinators.          *)
(***************************************************************************)
RECURSIVE Call(_, _, _)
RECURSIVE pipe_for(_, _, _, _, _, _)
RECURSIVE structured_mapping_for(_, _, _, _, _, _, _)
RECURSIVE structured_sequence_for(_, _, _, _, _, _, _)
RECURSIVE uniform_sequence_for(_, _, _, _, _, _, _, _)
RECURSIVE first_match_for(_, _, _, _, _, _, _)

\* pipe_for without the return on a non-null error.
pipe_for_noreturn(converters, i, args, kwargs_state, v, calls) ==
    IF i > Len(converters)
    THEN IF v = Unbound
         THEN WithCalls(Raise("UnboundLocalError"), calls)
         ELSE WithCalls(Ret(v, None), calls)
    ELSE IF converters[i] = NoConverter
    THEN pipe_for(converters, i + 1, args, kwargs_state, v, calls)
    ELSE LET r == Call(converters[i], args, kwargs_state) IN
         IF r.raised # "None" THEN WithCalls(r, calls \o r.calls)
         ELSE pipe_for(converters, i + 1, r.value, default_state, r.value, calls \o r.calls)

\* The loop of pipe_converter from its i-th converter on: args is the value
\* the next converter is called with, kwargs_state the state it receives
\* (default_state once kwargs has been emptied), v the local variable value.
pipe_for(converters, i, args, kwargs_state, v, calls) ==
    IF i > Len(converters)
    THEN IF v = Unbound
         THEN WithCalls(Raise("UnboundLocalError"), calls)
         ELSE WithCalls(Ret(v, None), calls)
    ELSE IF converters[i] = NoConverter
    THEN pipe_for(converters, i + 1, args, kwargs_state, v, calls)
    ELSE LET r == Call(converters[i], args, kwargs_state) IN
         IF r.raised # "None" THEN WithCalls(r, calls \o r.calls)
         ELSE IF r.error # None THEN WithCalls(Ret(r.value, r.error), calls \o r.calls)
         ELSE pipe_for(converters, i + 1, r.value, default_state, r.value, calls \o r.calls)

\* pipe_converter without the test for an empty converter list.
pipe_converter_noempty(converters, v, st) ==
    pipe_for(converters, 1, v, st, Unbound, <<>>)

pipe_converter(converters, v, st) ==
    IF converters = <<>> THEN noop(v, st)
    ELSE pipe_for(converters, 1, v, st, Unbound, <<>>)

\* MappingValuesConverter taking every default for None: an unknown key
\* always gets the 'Unexpected item' failure.
MappingValuesConverter_strict(converters, dflt, values) ==
    [name \in (DOMAIN converters) \cup (DOMAIN values.map) |->
        IF name \in DOMAIN converters THEN converters[name]
        ELSE fail("Unexpected item")]

\* structured_mapping_converter working on its configured table itself.
MappingCopies_never(dflt) == FALSE

\* Whether values_converter is a copy of the configured table
\* (converters.copy()) or the configured table itself.
MappingCopies(dflt) == dflt # Ignore

\* The effective per-key converter table of one call.
MappingValuesConverter(converters, dflt, values) ==
    IF dflt = Ignore THEN converters
    ELSE [name \in (DOMAIN converters) \cup (DOMAIN values.map) |->
            IF name \in DOMAIN converters THEN converters[name]
            ELSE IF dflt # NoConverter THEN dflt ELSE fail("Unexpected item")]

\* structured_mapping_for leaving the loop at the first key with an error.
structured_mapping_for_break(values_converter, names, values, st, errors, convertered_values, calls) ==
    IF names = {}
    THEN [errors |-> errors, convertered_values |-> convertered_values,
          raised |-> "None", calls |-> calls]
    ELSE LET name == CHOOSE n \in names : TRUE
             r == Call(values_converter[name], Get(values, name), st)
         IN  IF r.raised # "None"
             THEN [errors |-> errors, convertered_values |-> convertered_values,
                   raised |-> r.raised, calls |-> calls \o r.calls]
             ELSE IF r.error # None
             THEN [errors |-> Put(errors, name, r.error),
                   convertered_values |-> convertered_values,
                   raised |-> "None", calls |-> calls \o r.calls]
             ELSE structured_mapping_for(values_converter, names \ {name}, values, st,
                     errors,
                     IF r.value # None
                     THEN Put(convertered_values, name, r.value)
                     ELSE convertered_values,
                     calls \o r.calls)

\* The loop over the effective table; the iteration order of a dict is fixed
\* but arbitrary.
structured_mapping_for(values_converter, names, values, st, errors, convertered_values, calls) ==
    IF names = {}
    THEN [errors |-> errors, convertered_values |-> convertered_values,
          raised |-> "None", calls |-> calls]
    ELSE LET name == CHOOSE n \in names : TRUE
             r == Call(values_converter[name], Get(values, name), st)
         IN  IF r.raised # "None"
             THEN [errors |-> errors, convertered_values |-> convertered_values,
                   raised |-> r.raised, calls |-> calls \o r.calls]
             ELSE structured_mapping_for(values_converter, names \ {name}, values, st,
                     IF r.error # None THEN Put(errors, name, r.error) ELSE errors,
                     IF r.error = None /\ r.value # None
                     THEN Put(convertered_values, name, r.value)
                     ELSE convertered_values,
                     calls \o r.calls)

\* structured_mapping_converter looping over the keys of the input only.
structured_mapping_converter_present(converters, constructor, dflt, keep_empty, values, st) ==
    IF values = None THEN Ret(None, None)
    ELSE LET values_converter == MappingValuesConverter(converters, dflt, values)
             acc == structured_mapping_for(values_converter,
                        (DOMAIN values_converter) \cap (DOMAIN values.map),
                        values, st, EmptyMapping, EmptyMapping, <<>>)
         IN  IF acc.raised # "None" THEN WithCalls(Raise(acc.raised), acc.calls)
             ELSE WithCalls(
                    Ret(IF keep_empty \/ DOMAIN acc.convertered_values # {}
                        THEN ConstructMapping(constructor, acc.convertered_values)
                        ELSE None,
                        IF DOMAIN acc.errors # {} THEN PyDict(acc.errors) ELSE None),
                    acc.calls)

\* structured_mapping_converter without keep_empty: an empty output is
\* always replaced by None.
structured_mapping_converter_nokeep(converters, constructor, dflt, keep_empty, values, st) ==
    IF values = None THEN Ret(None, None)
    ELSE LET values_converter == MappingValuesConverter(converters, dflt, values)
             acc == structured_mapping_for(values_converter, DOMAIN values_converter,
                        values, st, EmptyMapping, EmptyMapping, <<>>)
         IN  IF acc.raised # "None" THEN WithCalls(Raise(acc.raised), acc.calls)
             ELSE WithCalls(
                    Ret(IF DOMAIN acc.convertered_values # {}
                        THEN ConstructMapping(constructor, acc.convertered_values)
                        ELSE None,
                        IF DOMAIN acc.errors # {} THEN PyDict(acc.errors) ELSE None),
                    acc.calls)

structured_mapping_converter(converters, constructor, dflt, keep_empty, values, st) ==
    IF values = None THEN Ret(None, None)
    ELSE LET values_converter == MappingValuesConverter(converters, dflt, values)
             acc == structured_mapping_for(values_converter, DOMAIN values_converter,
                        values, st, EmptyMapping, EmptyMapping, <<>>)
         IN  IF acc.raised # "None" THEN WithCalls(Raise(acc.raised), acc.calls)
             ELSE WithCalls(
                    Ret(IF keep_empty \/ DOMAIN acc.convertered_values # {}
                        THEN ConstructMapping(constructor, acc.convertered_values)
                        ELSE None,
                        IF DOMAIN acc.errors # {} THEN PyDict(acc.errors) ELSE None),
                    acc.calls)

\* structured_sequence_converter working on its configured list itself.
SequenceCopies_never(dflt) == FALSE

\* Whether values_converter is a copy of the configured list (converters[:])
\* or the configured list itself.
SequenceCopies(dflt) == dflt # Ignore

\* SequenceValuesConverter never extending the configured list.
SequenceValuesConverter_ignore(converters, dflt, values) == converters

\* The effective per-position converter list of one call.
SequenceValuesConverter(converters, dflt, values) ==
    IF dflt = Ignore \/ Len(values.items) <= Len(converters) THEN converters
    ELSE converters \o [i \in 1..(Len(values.items) - Len(converters)) |->
                          IF dflt # NoConverter THEN dflt ELSE fail("Unexpected item")]

\* structured_sequence_for appending only the values that are not None.
structured_sequence_for_dropnone(values_converter, i, values, st, errors, convertered_values, calls) ==
    IF i > Len(values_converter)
    THEN [errors |-> errors, convertered_values |-> convertered_values,
          raised |-> "None", calls |-> calls]
    ELSE LET item == IF i <= Len(values.items) THEN values.items[i] ELSE None
             r == Call(values_converter[i], item, st)
         IN  IF r.raised # "None"
             THEN [errors |-> errors, convertered_values |-> convertered_values,
                   raised |-> r.raised, calls |-> calls \o r.calls]
             ELSE structured_sequence_for(values_converter, i + 1, values, st,
                     IF r.error # None THEN Put(errors, i - 1, r.error) ELSE errors,
                     IF r.value # None THEN Append(convertered_values, r.value)
                     ELSE convertered_values,
                     calls \o r.calls)

\* The loop over izip_longest(values_converter, islice(values, len(values_converter)));
\* position i of the code is index i + 1 here, errors are keyed as in the code.
structured_sequence_for(values_converter, i, values, st, errors, convertered_values, calls) ==
    IF i > Len(values_converter)
    THEN [errors |-> errors, convertered_values |-> convertered_values,
          raised |-> "None", calls |-> calls]
    ELSE LET item == IF i <= Len(values.items) THEN values.items[i] ELSE None
             r == Call(values_converter[i], item, st)
         IN  IF r.raised # "None"
             THEN [errors |-> errors, convertered_values |-> convertered_values,
                   raised |-> r.raised, calls |-> calls \o r.calls]
             ELSE structured_sequence_for(values_converter, i + 1, values, st,
                     IF r.error # None THEN Put(errors, i - 1, r.error) ELSE errors,
                     Append(convertered_values, r.value),
                     calls \o r.calls)

structured_sequence_converter(converters, constructor, dflt, keep_empty, values, st) ==
    IF values = None THEN Ret(None, None)
    ELSE IF values.tag = "int" THEN Raise("TypeError")
    ELSE LET values_converter == SequenceValuesConverter(converters, dflt, values)
             acc == structured_sequence_for(values_converter, 1, values, st,
                        EmptyMapping, <<>>, <<>>)
         IN  IF acc.raised # "None" THEN WithCalls(Raise(acc.raised), acc.calls)
             ELSE WithCalls(
                    Ret(IF keep_empty \/ acc.convertered_values # <<>>
                        THEN ConstructSequence(constructor, acc.convertered_values)
                        ELSE None,
                        IF DOMAIN acc.errors # {} THEN PyIntDict(acc.errors) ELSE None),
                    acc.calls)

\* uniform_sequence_for keying each error by the position in the output.
uniform_sequence_for_outkey(conv, i, values, st, keep_null_items, errors, convertered_values, calls) ==
    IF i > Len(values.items)
    THEN [errors |-> errors, convertered_values |-> convertered_values,
          raised |-> "None", calls |-> calls]
    ELSE LET r == Call(conv, values.items[i], st)
         IN  IF r.raised # "None"
             THEN [errors |-> errors, convertered_values |-> convertered_values,
                   raised |-> r.raised, calls |-> calls \o r.calls]
             ELSE uniform_sequence_for(conv, i + 1, values, st, keep_null_items,
                     IF r.error # None
                     THEN Put(errors, Len(convertered_values), r.error) ELSE errors,
                     IF keep_null_items \/ r.value # None
                     THEN Append(convertered_values, r.value) ELSE convertered_values,
                     calls \o r.calls)

\* The loop over enumerate(values); position i of the code is index i + 1.
uniform_sequence_for(conv, i, values, st, keep_null_items, errors, convertered_values, calls) ==
    IF i > Len(values.items)
    THEN [errors |-> errors, convertered_values |-> convertered_values,
          raised |-> "None", calls |-> calls]
    ELSE LET r == Call(conv, values.items[i], st)
         IN  IF r.raised # "None"
             THEN [errors |-> errors, convertered_values |-> convertered_values,
                   raised |-> r.raised, calls |-> calls \o r.calls]
             ELSE uniform_sequence_for(conv, i + 1, values, st, keep_null_items,
                     IF r.error # None THEN Put(errors, i - 1, r.error) ELSE errors,
                     IF keep_null_items \/ r.value # None
                     THEN Append(convertered_values, r.value) ELSE convertered_values,
                     calls \o r.calls)

\* enumerate() of a value that is not iterable raises TypeError.
uniform_sequence_converter(conv, constructor, keep_empty, keep_null_items, values, st) ==
    IF values = None THEN Ret(None, None)
    ELSE IF values.tag = "int" THEN Raise("TypeError")
    ELSE LET acc == uniform_sequence_for(conv, 1, values, st, keep_null_items,
                        EmptyMapping, <<>>, <<>>)
         IN  IF acc.raised # "None" THEN WithCalls(Raise(acc.raised), acc.calls)
             ELSE WithCalls(
                    Ret(IF keep_empty \/ acc.convertered_values # <<>>
                        THEN ConstructSequence(constructor, acc.convertered_values)
                        ELSE None,
                        IF DOMAIN acc.errors # {} THEN PyIntDict(acc.errors) ELSE None),
                    acc.calls)

\* condition_converter handing the value of the test converter to the branch.
condition_converter_chain(tst, ok, err, v, st) ==
    LET t == Call(tst, v, st) IN
    IF t.raised # "None" THEN t
    ELSE IF t.error = None
    THEN LET r == Call(ok, t.value, st) IN WithCalls(r, t.calls \o r.calls)
    ELSE IF err = NoConverter THEN WithCalls(Ret(t.value, None), t.calls)
    ELSE LET r == Call(err, t.value, st) IN WithCalls(r, t.calls \o r.calls)

condition_converter(tst, ok, err, v, st) ==
    LET t == Call(tst, v, st) IN
    IF t.raised # "None" THEN t
    ELSE IF t.error = None
    THEN LET r == Call(ok, v, st) IN WithCalls(r, t.calls \o r.calls)
    ELSE IF err = NoConverter THEN WithCalls(Ret(v, None), t.calls)
    ELSE LET r == Call(err, v, st) IN WithCalls(r, t.calls \o r.calls)

\* first_match_for calling each next converter on the value of the previous one.
first_match_for_chain(converters, i, v, st, convertered_value, error, calls) ==
    IF i > Len(converters) THEN WithCalls(Ret(convertered_value, error), calls)
    ELSE LET r == Call(converters[i], v, st) IN
         IF r.raised # "None" \/ r.error = None THEN WithCalls(r, calls \o r.calls)
         ELSE first_match_for(converters, i + 1, r.value, st, r.value, r.error,
                              calls \o r.calls)

\* The loop over converters, from index i on, after the pair
\* (convertered_value, error) of the previous iteration.
first_match_for(converters, i, v, st, convertered_value, error, calls) ==
    IF i > Len(converters) THEN WithCalls(Ret(convertered_value, error), calls)
    ELSE LET r == Call(converters[i], v, st) IN
         IF r.raised # "None" \/ r.error = None THEN WithCalls(r, calls \o r.calls)
         ELSE first_match_for(converters, i + 1, v, st, r.value, r.error,
                              calls \o r.calls)

first_match_converter(converters, v, st) ==
    first_match_for(converters, 1, v, st, v, None, <<>>)

\* raise ValueError(error): the error field holds the exception's argument.
RaiseValueError(error) ==
    [value |-> None, error |-> error, raised |-> "ValueError", calls |-> <<>>]

\* to_value_converter raising whatever ignore_error is.
to_value_converter_strict(conv, ignore_error, v, st) ==
    LET r == Call(conv, v, st) IN
    IF r.raised # "None" THEN r
    ELSE IF r.error # None THEN WithCalls(RaiseValueError(r.error), r.calls)
    ELSE WithCalls(Ret(r.value, None), r.calls)

\* The function to_value returns: it returns the value alone, so the error
\* field of what it yields is None unless it raises.
to_value_converter(conv, ignore_error, v, st) ==
    LET r == Call(conv, v, st) IN
    IF r.raised # "None" THEN r
    ELSE IF ~ignore_error /\ r.error # None
    THEN WithCalls(RaiseValueError(r.error), r.calls)
    ELSE WithCalls(Ret(r.value, None), r.calls)

Apply(c, v, st) ==
    CASE c.op = "noop" -> noop(v, st)
      [] c.op = "cleanup_empty" -> cleanup_empty(v, st)
      [] c.op = "require" -> require(v, st)
      [] c.op = "default" -> default_converter(c.constant, v, st)
      [] c.op = "set_value" -> set_value_converter(c.constant, v, st)
      [] c.op = "fail" -> fail_converter(c.msg, v, st)
      [] c.op = "pipe" -> pipe_converter(c.converters, v, st)
      [] c.op = "structured_mapping" ->
            structured_mapping_converter(c.table, c.constructor, c.dflt,
                                         c.keep_empty, v, st)
      [] c.op = "structured_sequence" ->
            structured_sequence_converter(c.converters, c.constructor, c.dflt,
                                          c.keep_empty, v, st)
      [] c.op = "test" -> test_converter(c.function, c.error, c.handle_none, v, st)
      [] c.op = "function" -> function_converter(c.function, c.handle_none, v, st)
      [] c.op = "condition" ->
            condition_converter(c.test_converter, c.ok_converter, c.error_converter,
                                v, st)
      [] c.op = "first_match" -> first_match_converter(c.converters, v, st)
      [] c.op = "None" -> Raise("TypeError")
      [] c.op = "to_value" -> to_value_converter(c.converter, c.ignore_error, v, st)
      [] c.op = "uniform_sequence" ->
            uniform_sequence_converter(c.converter, c.constructor, c.keep_empty,
                                       c.keep_null_items, v, st)

\* One invocation, logged with what it was given and what it returned.
Call(c, v, st) ==
    LET r == Apply(c, v, st) IN
    WithCalls(r, <<[converter |-> c, value |-> v, state |-> st, out |-> r.value,
                    error |-> r.error, raised |-> r.raised, depth |-> 0]>>
                 \o Deeper(r.calls))

(***************************************************************************)
(* The converters constructed and the inputs they are invoked with.        *)
(***************************************************************************)
SeqsUpTo(S, n) == UNION {[1..k -> S] : k \in 0..n}

PipeEntries ==
    {NoConverter, noop_, require_, default(PyInt(1)), set_value(PyInt(2)),
     fail("An error occured"),
     structured_sequence(<<require_, require_>>, "list", NoConverter, FALSE)}
PipeConverters == {pipe(cs) : cs \in SeqsUpTo(PipeEntries, MaxPipe)}
PipeInputs == {None, PyInt(1), PyList(<<PyInt(1)>>)}

Names == {"a", "b"}
MappingEntriesA ==
    {NoConverter, noop_, require_, pipe(<<noop_, require_>>),
     structured_sequence(<<require_, require_>>, "list", NoConverter, FALSE)}
MappingEntriesB == {NoConverter, noop_, require_}
MappingDefaults == {NoConverter, Ignore, set_value(PyInt(2)), pipe(<<noop_, require_>>)}
MappingConstructors == {"dict", "OrderedDict"}
MappingConverters ==
    {structured_mapping([name \in Names |-> IF name = "a" THEN ca ELSE cb], k, d, e) :
        ca \in MappingEntriesA, cb \in MappingEntriesB, k \in MappingConstructors,
        d \in MappingDefaults, e \in BOOLEAN}
MappingItemsA == {None, PyInt(1), PyList(<<PyInt(1)>>)}
MappingItemsB == {None, PyInt(1)}
MappingItemsZ == {None, PyInt(2)}
MappingInputs ==
    {None} \cup
    {PyDict([name \in S |-> IF name = "a" THEN a ELSE IF name = "b" THEN b ELSE z]) :
        S \in SUBSET {"a", "b", "z"}, a \in MappingItemsA, b \in MappingItemsB,
        z \in MappingItemsZ}

SequenceEntries ==
    {NoConverter, noop_, require_,
     structured_sequence(<<require_, require_>>, "list", NoConverter, FALSE)}
SequenceDefaults == {NoConverter, Ignore, set_value(PyInt(2)), require_}
SequenceConstructors == {"list", "tuple"}
SequenceConverters ==
    {structured_sequence(cs, k, d, e) :
        cs \in SeqsUpTo(SequenceEntries, MaxLen), k \in SequenceConstructors,
        d \in SequenceDefaults, e \in BOOLEAN}
SequenceItems == {None, PyInt(1), PyList(<<PyInt(1)>>)}
SequenceInputs ==
    {None, PyList(<<PyInt(1), None, PyInt(1)>>)}
    \cup {PyList(s) : s \in SeqsUpTo(SequenceItems, MaxLen)}

UniformEntries ==
    {noop_, require_, fail("An error occured"),
     structured_sequence(<<require_, require_>>, "list", NoConverter, FALSE)}
UniformConverters ==
    {uniform_sequence(c, k, e, n) :
        c \in UniformEntries, k \in SequenceConstructors, e \in BOOLEAN, n \in BOOLEAN}
UniformInputs == SequenceInputs \cup {PyInt(1)}

ItemEntries ==
    {noop_, require_, fail("An error occured"), set_value(PyInt(2)), default(PyInt(1)),
     structured_sequence(<<require_, require_>>, "list", NoConverter, FALSE)}
ItemConstructors == SequenceConstructors \cup {"set"}
ItemOrSequenceConverters ==
    {item_or_sequence(c, k, n) :
        c \in ItemEntries, k \in ItemConstructors, n \in BOOLEAN}
ItemInputs ==
    UniformInputs \cup {PyTuple(<<PyInt(1)>>), PySet(<<>>), PySet(<<PyInt(1)>>),
                        PySet(<<None>>)}

ConditionTests ==
    {noop_, require_, set_value(PyInt(2)), default(PyInt(2)), fail("An error occured"),
     test_isinstance("list")}
ConditionOks == {noop_, require_, default(PyInt(1)), fail("An error occured")}
ConditionErrors == {NoConverter, noop_, require_, set_value(PyInt(2))}
ConditionConverters ==
    {condition(t, o, e) : t \in ConditionTests, o \in ConditionOks, e \in ConditionErrors}

FirstMatchEntries ==
    {noop_, require_, set_value(PyInt(2)), fail("An error occured"),
     structured_sequence(<<require_, require_>>, "list", NoConverter, FALSE)}
FirstMatchConverters == {first_match(cs) : cs \in SeqsUpTo(FirstMatchEntries, MaxPipe)}

LeafConverters ==
    {noop_, require_, fail("An error occured"), default(PyInt(1)), set_value(PyInt(2)),
     test(Lambda("isinstance", PyStr("int")), "Test failed", FALSE),
     test(Lambda("isinstance", PyStr("int")), "Test failed", TRUE),
     test(NoFunction, "Test failed", FALSE),
     test_isinstance("list"),
     function(Lambda("first_item", None), FALSE),
     function(Lambda("first_item", None), TRUE),
     function(NoFunction, FALSE),
     translate(PyIntDict([i \in {1} |-> PyStr("OK")])),
     translate(None)}
LeafInputs == PipeInputs \cup {PyInt(0), PyList(<<>>)}

ToValueEntries ==
    {noop_, require_, fail("An error occured"), pipe(<<noop_, require_>>),
     structured_sequence(<<require_, require_>>, "list", NoConverter, FALSE)}
ToValueFunctions == {to_value(c, g) : c \in ToValueEntries, g \in BOOLEAN}

Chars == {PyStr(" "), PyStr("a")}
TextInputs == {None} \cup {PyUnicode(cs) : cs \in SeqsUpTo(Chars, MaxText)}

(***************************************************************************)
(* The state machine: a converter is constructed, then invoked on a value   *)
(* with a state; result holds what the invocation yielded, converter what  *)
(* the converter's closure holds after it, history the invocations made.   *)
(* Spec invokes every converter once; SpecRepeat invokes a few converters  *)
(* up to MaxCalls times.                                                   *)
(***************************************************************************)
NotCalled == Ret(None, None)

\* The (value, error) pair of a call, with the exception it raised if any.
Outcome(r) == <<r.value, r.error, r.raised>>

\* The converter after a call on v: the configured table of a structural
\* combinator is the object the call worked on when no copy was made, so
\* it holds whatever the call stored into values_converter.
ConverterAfter(c, v) ==
    IF c.op = "structured_mapping" /\ v.tag = "dict" /\ ~MappingCopies(c.dflt)
    THEN [c EXCEPT !.table = MappingValuesConverter(c.table, c.dflt, v)]
    ELSE IF c.op = "structured_sequence" /\ v.tag \in {"list", "tuple"}
            /\ ~SequenceCopies(c.dflt)
    THEN [c EXCEPT !.converters = SequenceValuesConverter(c.converters, c.dflt, v)]
    ELSE c

Init ==
    /\ \/ converter \in PipeConverters
       \/ converter \in MappingConverters
       \/ converter \in SequenceConverters
       \/ converter \in UniformConverters
       \/ converter \in ItemOrSequenceConverters
       \/ converter \in ConditionConverters
       \/ converter \in FirstMatchConverters
       \/ converter \in LeafConverters
       \/ converter \in ToValueFunctions
       \/ converter = cleanup_line
    /\ value = None
    /\ state = default_state
    /\ result = NotCalled
    /\ pc = "constructed"
    /\ history = <<>>

\* converter(v, state = st), whenever it is made.
Invocation(v, st) ==
    /\ value' = v
    /\ state' = st
    /\ result' = Call(converter, v, st)
    /\ pc' = "called"
    /\ converter' = ConverterAfter(converter, v)
    /\ history' = Append(history, [converter |-> converter, value |-> v, state |-> st,
                                   outcome |-> Outcome(Call(converter, v, st))])

Invoke(v, st) ==
    /\ pc = "constructed"
    /\ Invocation(v, st)

InvokePipe ==
    /\ converter.op = "pipe"
    /\ \E v \in PipeInputs, st \in States : Invoke(v, st)

InvokeStructuredMapping ==
    /\ converter.op = "structured_mapping"
    /\ \E v \in MappingInputs, st \in States : Invoke(v, st)

InvokeStructuredSequence ==
    /\ converter.op = "structured_sequence"
    /\ \E v \in SequenceInputs, st \in States : Invoke(v, st)

InvokeUniformSequence ==
    /\ converter.op = "uniform_sequence"
    /\ \E v \in UniformInputs, st \in States : Invoke(v, st)

InvokeItemOrSequence ==
    /\ converter \in ItemOrSequenceConverters
    /\ \E v \in ItemInputs, st \in States : Invoke(v, st)

InvokeCondition ==
    /\ converter \in ConditionConverters
    /\ \E v \in PipeInputs, st \in States : Invoke(v, st)

InvokeFirstMatch ==
    /\ converter.op = "first_match"
    /\ \E v \in PipeInputs, st \in States : Invoke(v, st)

InvokeLeaf ==
    /\ converter \in LeafConverters
    /\ \E v \in LeafInputs, st \in States : Invoke(v, st)

InvokeToValue ==
    /\ converter.op = "to_value"
    /\ \E v \in PipeInputs, st \in States : Invoke(v, st)

InvokeCleanupLine ==
    /\ converter = cleanup_line
    /\ \E v \in TextInputs, st \in States : Invoke(v, st)

Next ==
    \/ InvokePipe
    \/ InvokeStructuredMapping
    \/ InvokeStructuredSequence
    \/ InvokeUniformSequence
    \/ InvokeItemOrSequence
    \/ InvokeCondition
    \/ InvokeFirstMatch
    \/ InvokeLeaf
    \/ InvokeToValue
    \/ InvokeCleanupLine

Spec == Init /\ [][Next]_vars

\* The converters invoked repeatedly, and what they are invoked on.
RepeatDefaults == {NoConverter, Ignore, set_value(PyInt(2))}
RepeatConverters ==
    {structured_mapping([name \in Names |-> IF name = "a" THEN require_ ELSE noop_],
                        "dict", d, FALSE) : d \in RepeatDefaults}
    \cup {structured_sequence(<<require_>>, "list", d, FALSE) : d \in RepeatDefaults}
    \cup {pipe(<<noop_, require_>>),
          pipe(<<structured_sequence(<<require_>>, "list", NoConverter, FALSE)>>),
          condition(test_isinstance("list"), noop_, fail("An error occured")),
          first_match(<<require_, set_value(PyInt(2))>>),
          uniform_sequence(require_, "list", FALSE, FALSE),
          item_or_sequence(require_, "list", FALSE)}
RepeatMappingInputs ==
    {None, PyDict(EmptyMapping), PyDict([name \in {"a"} |-> PyInt(1)]),
     PyDict([name \in {"z"} |-> PyInt(2)])}
RepeatSequenceInputs ==
    {None, PyList(<<>>), PyList(<<PyInt(1)>>), PyList(<<PyInt(1), PyInt(1)>>)}
RepeatInputs(c) ==
    IF c.op = "structured_mapping" THEN RepeatMappingInputs
    ELSE IF c.op \in {"structured_sequence", "uniform_sequence"} THEN RepeatSequenceInputs
    ELSE PipeInputs

InitRepeat ==
    /\ converter \in RepeatConverters
    /\ value = None
    /\ state = default_state
    /\ result = NotCalled
    /\ pc = "constructed"
    /\ history = <<>>

\* One more invocation of the converter, after any number of others.
Reinvoke ==
    /\ Len(history) < MaxCalls
    /\ \E v \in RepeatInputs(converter), st \in States : Invocation(v, st)

NextRepeat == Reinvoke

SpecRepeat == InitRepeat /\ [][NextRepeat]_vars

(***************************************************************************)
(* What the claims speak of.                                               *)
(***************************************************************************)
Called == pc = "called"

\* The invocations the invoked converter made itself, in order.
DirectCalls == SelectSeq(result.calls, LAMBDA e : e.depth = 1)

NoNoneEntry(cs) == \A i \in 1..Len(cs) : cs[i] # NoConverter
WithoutNone(cs) == SelectSeq(cs, LAMBDA c : c # NoConverter)

\* C1: a pipe without None entries invokes its converters left to right, the
\* first on the input and each next one on the value the previous returned,
\* only while no error occurred; at the first non-null error it returns that
\* converter's (value, error) pair and invokes no later converter, so that
\* pipe(a, b)(x) = a(x) when a(x) has an error; without error it returns the
\* last converter's value.
C1_PipeShortCircuit ==
    (Called /\ converter.op = "pipe" /\ NoNoneEntry(converter.converters)) =>
        LET cs == converter.converters
            d == DirectCalls
            n == Len(d)
        IN  /\ n <= Len(cs)
            /\ Len(cs) > 0 => n > 0
            /\ \A i \in 1..n :
                  /\ d[i].converter = cs[i]
                  /\ d[i].value = IF i = 1 THEN value ELSE d[i - 1].out
                  /\ i < n => (d[i].error = None /\ d[i].raised = "None")
            /\ n > 0 =>
                  /\ n < Len(cs) => (d[n].error # None \/ d[n].raised # "None")
                  /\ d[n].raised = "None" =>
                        (result.value = d[n].out /\ result.error = d[n].error
                         /\ result.raised = "None")
            /\ Len(cs) > 0 =>
                  LET a == Call(cs[1], value, state) IN
                  (a.raised = "None" /\ a.error # None) =>
                      (Outcome(result) = Outcome(a) /\ n = 1)

\* C1 witness: the second of three converters failed with a non-null value
\* and the third was not invoked.
C1_Witness ==
    /\ Called /\ converter.op = "pipe" /\ NoNoneEntry(converter.converters)
    /\ Len(converter.converters) = 3 /\ Len(DirectCalls) = 2
    /\ result.error # None /\ result.value # None

\* C2: every converter a pipe invokes receives the state the caller gave
\* to the pipe.
C2_PipeContext ==
    (Called /\ converter.op = "pipe") =>
        \A i \in 1..Len(DirectCalls) : DirectCalls[i].state = state

\* C3: None entries of a pipe are skipped: the pipe yields what the pipe of
\* its other entries yields, and does not abort where that pipe does not.
C3_PipeNoneSkipped ==
    (Called /\ converter.op = "pipe") =>
        Outcome(result) = Outcome(Call(pipe(WithoutNone(converter.converters)), value, state))

\* C4: pipe() is the identity: pipe()(x) = (x, None) for every x, the absent
\* marker included, and nothing is raised.
C4_PipeIdentity ==
    (Called /\ converter = pipe(<<>>)) =>
        (result.value = value /\ result.error = None /\ result.raised = "None")

\* C4 witness: pipe() was invoked on the absent marker.
C4_Witness == Called /\ converter = pipe(<<>>) /\ value = None /\ result.value = None

\* The keys of the effective table of the invoked structured_mapping, and
\* for each the converter it holds and what that converter yields on the
\* key's item of the input.
EffectiveNames ==
    IF converter.dflt = Ignore THEN DOMAIN converter.table
    ELSE (DOMAIN converter.table) \cup (DOMAIN value.map)
EffectiveConverter(name) ==
    IF name \in DOMAIN converter.table THEN converter.table[name]
    ELSE IF converter.dflt = NoConverter THEN fail("Unexpected item")
    ELSE converter.dflt
NameOutcome(name) == Call(EffectiveConverter(name), Get(value, name), state)
FailingNames == {name \in EffectiveNames : NameOutcome(name).error # None}
\* The names whose converter returned a value to put into the output.
ValuedNames ==
    {name \in EffectiveNames :
        NameOutcome(name).error = None /\ NameOutcome(name).value # None}

MappingReturned ==
    /\ Called /\ converter.op = "structured_mapping"
    /\ value # None /\ result.raised = "None"

\* C5: structured_mapping isolates the failures of its keys: every key of
\* the effective table is converted whatever the others return, the error is
\* None exactly when no key's converter returned an error and is otherwise
\* the mapping of exactly the failing keys to their errors, and the keys
\* converted without error to a value are in the returned value beside it.
C5_MappingIsolation ==
    MappingReturned =>
        /\ Len(DirectCalls) = Cardinality(EffectiveNames)
        /\ (result.error = None) <=> (FailingNames = {})
        /\ result.error # None =>
              /\ result.error.tag = "dict"
              /\ DOMAIN result.error.map = FailingNames
              /\ \A name \in FailingNames :
                    result.error.map[name] = NameOutcome(name).error
        /\ \A name \in ValuedNames :
              /\ result.value # None
              /\ name \in DOMAIN result.value.map
              /\ result.value.map[name] = NameOutcome(name).value

\* C5 witness: structured_mapping({a: require, b: require}) on
\* {a: None, b: 1} returned ({b: 1}, {a: 'Missing value'}).
C5_Witness ==
    /\ MappingReturned /\ state = default_state
    /\ converter.table = [a |-> require_, b |-> require_]
    /\ value = PyDict([a |-> None, b |-> PyInt(1)])
    /\ result.value = ConstructMapping(converter.constructor, [b |-> PyInt(1)])
    /\ result.error = PyDict([a |-> PyStr("Missing value")])

UnknownNames == (DOMAIN value.map) \ (DOMAIN converter.table)

\* C6: an input key without configured converter gets the error
\* 'Unexpected item' when default is None, is converted by the default
\* converter when default is a converter, and is given to no converter and
\* is in neither the value nor the error when default is 'ignore'; the
\* configured keys are converted in every case.
C6_UnknownKeyPolicy ==
    MappingReturned =>
        /\ \A name \in UnknownNames :
              LET inValue == result.value # None /\ name \in DOMAIN result.value.map
                  inError == result.error # None /\ name \in DOMAIN result.error.map
                  r == Call(converter.dflt, value.map[name], state)
              IN  /\ converter.dflt = NoConverter =>
                        /\ inError /\ ~inValue
                        /\ result.error.map[name] =
                              PyStr(Translate(state, "Unexpected item"))
                  /\ converter.dflt = Ignore => (~inError /\ ~inValue)
                  /\ converter.dflt \notin {NoConverter, Ignore} =>
                        /\ inError <=> (r.error # None)
                        /\ inError => result.error.map[name] = r.error
                        /\ (r.error = None /\ r.value # None) =>
                              (inValue /\ result.value.map[name] = r.value)
        /\ converter.dflt = Ignore =>
              Len(DirectCalls) = Cardinality(DOMAIN converter.table)
        /\ \A name \in (DOMAIN converter.table) \cap ValuedNames :
              /\ result.value # None /\ name \in DOMAIN result.value.map
              /\ result.value.map[name] = NameOutcome(name).value

\* C6 witness: structured_mapping({a: noop}) with default None on
\* {a: 1, z: 2} returned ({a: 1}, {z: 'Unexpected item'}).
C6_Witness ==
    /\ MappingReturned /\ state = default_state
    /\ converter.table = [a |-> noop_] /\ converter.dflt = NoConverter
    /\ value = PyDict([a |-> PyInt(1), z |-> PyInt(2)])
    /\ result.value = ConstructMapping(converter.constructor, [a |-> PyInt(1)])
    /\ result.error = PyDict([z |-> PyStr("Unexpected item")])

\* C7: the value and the error a key's converter returns are accumulated
\* independently: every key whose converter returned a value that is not
\* None is in the returned value, also when the converter returned an error
\* with it, and every key whose converter returned an error is in the error.
C7_MappingValueWithError ==
    MappingReturned =>
        \A name \in EffectiveNames :
            /\ NameOutcome(name).value # None =>
                  /\ result.value # None
                  /\ name \in DOMAIN result.value.map
                  /\ result.value.map[name] = NameOutcome(name).value
            /\ NameOutcome(name).error # None =>
                  /\ result.error # None
                  /\ name \in DOMAIN result.error.map

\* C8: on an input that is not None, the converter of every configured key
\* is invoked with the state, on the key's item or on None when the input
\* lacks the key, under every default; a configured require then reports
\* 'Missing value' for a key the input lacks.
C8_MappingMissingKeys ==
    MappingReturned =>
        /\ Len(DirectCalls) >= Cardinality(DOMAIN converter.table)
        /\ \A name \in DOMAIN converter.table :
              /\ \E i \in 1..Len(DirectCalls) :
                    /\ DirectCalls[i].converter = converter.table[name]
                    /\ DirectCalls[i].value = Get(value, name)
                    /\ DirectCalls[i].state = state
              /\ (converter.table[name] = require_ /\ name \notin DOMAIN value.map) =>
                    /\ result.error # None
                    /\ name \in DOMAIN result.error.map
                    /\ result.error.map[name] = PyStr(Translate(state, "Missing value"))

\* C8 witness: with default 'ignore', a configured require reported
\* 'Missing value' for key b, which the input {z: 2} lacks.
C8_Witness ==
    /\ MappingReturned /\ converter.dflt = Ignore
    /\ "b" \in DOMAIN converter.table /\ converter.table["b"] = require_
    /\ value = PyDict([z |-> PyInt(2)])
    /\ result.error # None /\ "b" \in DOMAIN result.error.map
    /\ result.error.map["b"] = PyStr(Translate(state, "Missing value"))

\* The output mapping the loop accumulated.
OutputMapping == [name \in ValuedNames |-> NameOutcome(name).value]

\* C9: for an input that is not None the returned value is None exactly
\* when the output mapping is empty and keep_empty is false, and is
\* constructor(output mapping) otherwise.
C9_MappingKeepEmpty ==
    MappingReturned =>
        /\ (result.value = None) <=> (ValuedNames = {} /\ ~converter.keep_empty)
        /\ result.value # None =>
              result.value = ConstructMapping(converter.constructor, OutputMapping)

\* C9 witness: with keep_empty, an input of which no key converts to a value
\* returned an empty container of the constructor's type.
C9_Witness ==
    /\ MappingReturned /\ converter.keep_empty /\ converter.constructor = "OrderedDict"
    /\ value = PyDict([a |-> None]) /\ ValuedNames = {}
    /\ result.value = ConstructMapping("OrderedDict", EmptyMapping)

\* The effective converter list of the invoked structured_sequence: the
\* configured converters, extended up to the input's length by the default
\* (or the 'Unexpected item' failure) unless the default is 'ignore'.
EffectiveLength ==
    IF converter.dflt = Ignore \/ Len(value.items) <= Len(converter.converters)
    THEN Len(converter.converters)
    ELSE Len(value.items)
PositionConverter(i) ==
    IF i <= Len(converter.converters) THEN converter.converters[i]
    ELSE IF converter.dflt = NoConverter THEN fail("Unexpected item")
    ELSE converter.dflt
PositionItem(i) == IF i <= Len(value.items) THEN value.items[i] ELSE None
PositionOutcome(i) == Call(PositionConverter(i), PositionItem(i), state)
FailingPositions == {i \in 1..EffectiveLength : PositionOutcome(i).error # None}

SequenceReturned ==
    /\ Called /\ converter.op = "structured_sequence"
    /\ value # None /\ result.raised = "None"

\* C10: structured_sequence keeps the positions aligned: for an input that
\* is not None every position of the effective converter list is converted
\* in order, from the input's item or from None beyond the input's length,
\* the output list holds the value of every position, None values and the
\* values of failing positions included, and the error is the mapping of
\* exactly the failing positions to their errors (None when there is none).
\* The list is returned through the constructor; an empty list without
\* keep_empty is returned as None.
C10_SequenceAlignment ==
    SequenceReturned =>
        /\ Len(DirectCalls) = EffectiveLength
        /\ \A i \in 1..EffectiveLength :
              /\ DirectCalls[i].converter = PositionConverter(i)
              /\ DirectCalls[i].value = PositionItem(i)
        /\ (EffectiveLength > 0 \/ converter.keep_empty) =>
              /\ result.value # None
              /\ result.value.tag = converter.constructor
              /\ Len(result.value.items) = EffectiveLength
              /\ \A i \in 1..EffectiveLength :
                    result.value.items[i] = PositionOutcome(i).value
        /\ (EffectiveLength = 0 /\ ~converter.keep_empty) => result.value = None
        /\ (result.error = None) <=> (FailingPositions = {})
        /\ result.error # None =>
              /\ result.error.tag = "dict"
              /\ DOMAIN result.error.imap = {i - 1 : i \in FailingPositions}
              /\ \A i \in FailingPositions :
                    result.error.imap[i - 1] = PositionOutcome(i).error

\* C10 witness: structured_sequence([require, require]) on [1] returned
\* ([1, None], {1: 'Missing value'}).
C10_Witness ==
    /\ SequenceReturned /\ state = default_state
    /\ converter.converters = <<require_, require_>>
    /\ value = PyList(<<PyInt(1)>>)
    /\ result.value = ConstructSequence(converter.constructor, <<PyInt(1), None>>)
    /\ DOMAIN result.error.imap = {1}
    /\ result.error.imap[1] = PyStr("Missing value")

\* The positions of the input beyond the configured converter list.
ExtraPositions == (Len(converter.converters) + 1)..Len(value.items)

\* C11: when the input of a structured_sequence is longer than the
\* configured converter list, each extra position i is, with default None,
\* reported as error 'Unexpected item' under key i with None at i of the
\* output; with a default converter, converted by that converter; with
\* default 'ignore', neither converted nor reported, the output having
\* exactly as many entries as configured converters.
C11_SequenceExtraPolicy ==
    (SequenceReturned /\ ExtraPositions # {}) =>
        /\ converter.dflt = NoConverter =>
              \A i \in ExtraPositions :
                 /\ result.error # None
                 /\ (i - 1) \in DOMAIN result.error.imap
                 /\ result.error.imap[i - 1] = PyStr(Translate(state, "Unexpected item"))
                 /\ result.value.items[i] = None
        /\ converter.dflt \notin {NoConverter, Ignore} =>
              \A i \in ExtraPositions :
                 LET r == Call(converter.dflt, value.items[i], state) IN
                 /\ DirectCalls[i].converter = converter.dflt
                 /\ DirectCalls[i].value = value.items[i]
                 /\ result.value.items[i] = r.value
                 /\ (r.error = None) =>
                       (result.error = None \/ (i - 1) \notin DOMAIN result.error.imap)
                 /\ (r.error # None) =>
                       /\ result.error # None
                       /\ (i - 1) \in DOMAIN result.error.imap
                       /\ result.error.imap[i - 1] = r.error
        /\ converter.dflt = Ignore =>
              /\ Len(DirectCalls) = Len(converter.converters)
              /\ result.error # None =>
                    \A i \in ExtraPositions : (i - 1) \notin DOMAIN result.error.imap
              /\ IF converter.converters = <<>> /\ ~converter.keep_empty
                 THEN result.value = None
                 ELSE Len(result.value.items) = Len(converter.converters)

\* C11 witness: structured_sequence([noop]) on [1, 1] returned
\* ([1, None], {1: 'Unexpected item'}).
C11_Witness ==
    /\ SequenceReturned /\ state = default_state
    /\ converter.converters = <<noop_>> /\ converter.dflt = NoConverter
    /\ value = PyList(<<PyInt(1), PyInt(1)>>)
    /\ result.value = ConstructSequence(converter.constructor, <<PyInt(1), None>>)
    /\ DOMAIN result.error.imap = {1}
    /\ result.error.imap[1] = PyStr("Unexpected item")

UniformReturned ==
    /\ Called /\ converter.op = "uniform_sequence" /\ result.raised = "None"

\* What the converter of the invoked uniform_sequence yields for item i.
ItemOutcome(i) == Call(converter.converter, value.items[i], state)
FailingItems == {i \in 1..Len(value.items) : ItemOutcome(i).error # None}
ItemValues == [i \in 1..Len(value.items) |-> ItemOutcome(i).value]
KeptItemValues ==
    IF converter.keep_null_items THEN ItemValues
    ELSE SelectSeq(ItemValues, LAMBDA x : x # None)

\* C12: uniform_sequence returns (None, None) for None; otherwise it calls
\* its converter on every item of the input, in order; the error is the
\* mapping of the input positions of the failing items to their errors,
\* None when no item fails; the output holds the values in input order,
\* without the None values unless keep_null_items (then one entry per
\* item); the value is None when the output is empty and keep_empty is
\* false, constructor(output) otherwise.
C12_UniformSequence ==
    UniformReturned =>
        IF value = None THEN result.value = None /\ result.error = None
        ELSE
        /\ Len(DirectCalls) = Len(value.items)
        /\ \A i \in 1..Len(value.items) :
              /\ DirectCalls[i].converter = converter.converter
              /\ DirectCalls[i].value = value.items[i]
              /\ DirectCalls[i].state = state
        /\ (result.error = None) <=> (FailingItems = {})
        /\ result.error # None =>
              /\ result.error.tag = "dict"
              /\ DOMAIN result.error.imap = {i - 1 : i \in FailingItems}
              /\ \A i \in FailingItems : result.error.imap[i - 1] = ItemOutcome(i).error
        /\ converter.keep_null_items => Len(KeptItemValues) = Len(value.items)
        /\ result.value =
              IF KeptItemValues = <<>> /\ ~converter.keep_empty THEN None
              ELSE ConstructSequence(converter.constructor, KeptItemValues)

\* C12 witness: uniform_sequence(structured_sequence([require, require]))
\* on [None, [1]] dropped the first item and returned
\* ([[1, None]], {1: {1: 'Missing value'}}): the error is keyed by the
\* position in the input, not in the output.
C12_Witness ==
    /\ UniformReturned /\ state = default_state /\ ~converter.keep_null_items
    /\ converter.converter.op = "structured_sequence"
    /\ value = PyList(<<None, PyList(<<PyInt(1)>>)>>)
    /\ result.value =
          ConstructSequence(converter.constructor, <<PyList(<<PyInt(1), None>>)>>)
    /\ DOMAIN result.error.imap = {1}
    /\ result.error.imap[1] = PyIntDict([i \in {1} |-> PyStr("Missing value")])

\* The converter given to the invoked item_or_sequence, and its container type.
ItemConverter == converter.error_converter
ItemConstructor == converter.test_converter.function.arg.s

\* An item_or_sequence was invoked on a single-element list [v] of its
\* container type and returned; DirectItem is what its converter yields for v.
SingletonReturned ==
    /\ Called /\ converter \in ItemOrSequenceConverters /\ result.raised = "None"
    /\ value.tag = ItemConstructor /\ Len(value.items) = 1
DirectItem == Call(ItemConverter, value.items[1], state)

\* C13: a single-element list [v] through item_or_sequence(conv) yields the
\* same (value, error) as v through conv, whenever the converted item is
\* not itself a list or a tuple: when conv succeeds, when it returns an
\* error and when it converts v to None.
C13_ItemOrSequenceCollapse ==
    (SingletonReturned /\ DirectItem.raised = "None" /\ ~IsSequence(DirectItem.value)) =>
        /\ result.value = DirectItem.value
        /\ result.error = DirectItem.error

\* C13, for the items conv converts without error: the collapse holds.
C13_CollapseWithoutError ==
    (SingletonReturned /\ DirectItem.raised = "None" /\ ~IsSequence(DirectItem.value)
        /\ DirectItem.error = None) =>
        /\ result.value = DirectItem.value
        /\ result.error = None

\* C13, for the items conv fails on: the error of conv comes back under
\* key 0 of an error mapping, not as conv returned it.
C13_ErrorIsKeyed ==
    (SingletonReturned /\ DirectItem.raised = "None" /\ DirectItem.error # None) =>
        /\ result.error = PyIntDict([i \in {0} |-> DirectItem.error])
        /\ result.error # DirectItem.error

ConditionCalled == Called /\ converter.op = "condition"
TestOutcome == Call(converter.test_converter, value, state)

\* C14: condition calls its test converter on the value and uses only
\* whether its error is None: without error the result is what the ok
\* converter yields for the original value; with an error it is what the
\* error converter yields for the original value, or (value, None) when
\* there is no error converter.  Neither the value nor the error of the
\* test converter is handed on or returned.
C14_ConditionBranch ==
    (ConditionCalled /\ TestOutcome.raised = "None") =>
        /\ DirectCalls[1].converter = converter.test_converter
        /\ DirectCalls[1].value = value
        /\ IF TestOutcome.error = None
           THEN /\ Len(DirectCalls) = 2
                /\ DirectCalls[2].converter = converter.ok_converter
                /\ DirectCalls[2].value = value
                /\ Outcome(result) = Outcome(Call(converter.ok_converter, value, state))
           ELSE IF converter.error_converter = NoConverter
           THEN /\ Len(DirectCalls) = 1
                /\ Outcome(result) = <<value, None, "None">>
           ELSE /\ Len(DirectCalls) = 2
                /\ DirectCalls[2].converter = converter.error_converter
                /\ DirectCalls[2].value = value
                /\ Outcome(result) = Outcome(Call(converter.error_converter, value, state))

\* C14 witness: condition(set_value(2), noop)(1) returned (1, None), not
\* the 2 its test converter converted the value to.
C14_Witness ==
    /\ ConditionCalled /\ converter \in ConditionConverters /\ value = PyInt(1)
    /\ converter.test_converter = set_value(PyInt(2))
    /\ converter.ok_converter = noop_
    /\ TestOutcome.value = PyInt(2)
    /\ result.value = PyInt(1) /\ result.error = None

FirstMatchCalled == Called /\ converter.op = "first_match"
\* What converter i of the invoked first_match yields for the original value.
MatchOutcome(i) == Call(converter.converters[i], value, state)
\* The converters that end the loop: those without error (or raising).
Matching ==
    {i \in 1..Len(converter.converters) :
        MatchOutcome(i).error = None \/ MatchOutcome(i).raised # "None"}
\* The last converter called: the first that matches, or the last of all.
LastTried ==
    IF Matching = {} THEN Len(converter.converters)
    ELSE CHOOSE i \in Matching : \A j \in Matching : i <= j

\* C15: first_match calls its converters in order, each on the original
\* value with the caller's state, up to and including the first one whose
\* error is None, and returns what that one returned; when every converter
\* fails it returns the value and error of the last one; without
\* converters it returns (value, None).
C15_FirstMatch ==
    FirstMatchCalled =>
        /\ Len(DirectCalls) = LastTried
        /\ \A i \in 1..LastTried :
              /\ DirectCalls[i].converter = converter.converters[i]
              /\ DirectCalls[i].value = value
              /\ DirectCalls[i].state = state
        /\ IF converter.converters = <<>>
           THEN Outcome(result) = <<value, None, "None">>
           ELSE Outcome(result) = Outcome(MatchOutcome(LastTried))
        /\ Matching # {} => (result.error = None \/ result.raised # "None")

\* C15 witness: first_match(fail(), set_value(2), require)(1) returned
\* (2, None) after two calls; the error of fail is not returned.
C15_Witness ==
    /\ FirstMatchCalled /\ value = PyInt(1)
    /\ converter.converters = <<fail("An error occured"), set_value(PyInt(2)), require_>>
    /\ Len(DirectCalls) = 2
    /\ DirectCalls[1].error # None
    /\ result.value = PyInt(2) /\ result.error = None

Absent == <<None, None, "None">>
\* c is a converter that returns (None, None) for None.
AbsentToAbsent(c) ==
    c # NoConverter /\ \A st \in States : Outcome(Call(c, None, st)) = Absent

\* The invoked converter is one of those said to propagate None: a
\* structural combinator or item_or_sequence whatever it is built from, a
\* test, translate or function without handle_none, noop, or a pipe,
\* condition or first_match built only from converters that return
\* (None, None) for None.
PropagatesAbsence ==
    \/ converter.op \in {"structured_mapping", "structured_sequence",
                         "uniform_sequence", "noop"}
    \/ converter \in ItemOrSequenceConverters
    \/ converter.op \in {"test", "function"} /\ ~converter.handle_none
    \/ /\ converter.op \in {"pipe", "first_match"}
       /\ \A i \in 1..Len(converter.converters) : AbsentToAbsent(converter.converters[i])
    \/ /\ converter.op = "condition"
       /\ AbsentToAbsent(converter.test_converter)
       /\ AbsentToAbsent(converter.ok_converter)
       /\ converter.error_converter # NoConverter =>
             AbsentToAbsent(converter.error_converter)

\* C16: invoked on None, every converter said to propagate None returns
\* (None, None).
C16_AbsencePropagation ==
    (Called /\ value = None /\ PropagatesAbsence) => Outcome(result) = Absent

\* C16 witness: item_or_sequence(require)(None) returned (None, None),
\* although require returns an error for None.
C16_Witness ==
    /\ Called /\ value = None /\ converter \in ItemOrSequenceConverters
    /\ ItemConverter = require_
    /\ Call(require_, None, state).error # None
    /\ result.value = None /\ result.error = None /\ result.raised = "None"

\* A test built from a predicate and a message was invoked and returned.
TestReturned ==
    /\ Called /\ converter.op = "test" /\ result.raised = "None"
    /\ converter.function # NoFunction /\ ~converter.handle_none
PredicateHolds == Truthy(ApplyFunction(converter.function, value).value)

C18_TestEchoesValue ==
    (TestReturned /\ value # None) => result.value = value

ToValueCalled == Called /\ converter.op = "to_value"
\* What the converter wrapped by the invoked to_value yields.
Wrapped == Call(converter.converter, value, state)

\* C19: to_value calls its converter with the arguments it was given; when
\* the error is None, or ignore_error is set, it returns the converter's
\* value; otherwise it raises ValueError with the error as argument, be it
\* a message or an error mapping.
C19_ToValue ==
    (ToValueCalled /\ Wrapped.raised = "None") =>
        /\ Len(DirectCalls) = 1
        /\ DirectCalls[1].value = value /\ DirectCalls[1].state = state
        /\ IF Wrapped.error # None /\ ~converter.ignore_error
           THEN result.raised = "ValueError" /\ result.error = Wrapped.error
           ELSE result.raised = "None" /\ result.value = Wrapped.value

\* C19 witness: to_value(structured_sequence([require, require]),
\* ignore_error = True)([1]) returned [1, None], the converter's error
\* being {1: 'Missing value'}.
C19_Witness ==
    /\ ToValueCalled /\ converter.ignore_error /\ value = PyList(<<PyInt(1)>>)
    /\ converter.converter.op = "structured_sequence"
    /\ Wrapped.error # None /\ Wrapped.error.tag = "dict"
    /\ result.raised = "None" /\ result.value = PyList(<<PyInt(1), None>>)

\* The calls, anywhere beneath the invocation, of the converters that
\* generate an error message, and the message each is built with.
MessageCalls ==
    {k \in 1..Len(result.calls) :
        result.calls[k].converter.op \in {"fail", "require", "test"}}
Message(c) ==
    IF c.op = "fail" THEN c.msg
    ELSE IF c.op = "require" THEN "Missing value"
    ELSE c.error
\* The calls of state._ made by call k.
TranslationsOf(k) ==
    {j \in (k + 1)..Len(result.calls) :
        /\ result.calls[j].converter = Underscore
        /\ result.calls[j].depth = result.calls[k].depth + 1
        /\ \A m \in (k + 1)..j : result.calls[m].depth > result.calls[k].depth}
AllTranslations ==
    {j \in 1..Len(result.calls) : result.calls[j].converter = Underscore}

\* C20: every call of fail returns (None, state._(msg)) whatever its input;
\* every call of fail, require or test that returns an error has called
\* state._ of the state it was given exactly once, on its message as it
\* was built (placeholders substituted), and returns what state._ returned;
\* a call that returns no error has not called it; nothing else calls it.
\* The 'Unexpected item' of the structural combinators is such a fail.
C20_TranslatedOnce ==
    Called =>
        /\ \A k \in MessageCalls :
              LET e == result.calls[k] IN
              /\ e.converter.op = "fail" =>
                    /\ e.out = None
                    /\ e.error = PyStr(Translate(e.state, e.converter.msg))
              /\ e.error = None => TranslationsOf(k) = {}
              /\ e.error # None =>
                    /\ TranslationsOf(k) = {k + 1}
                    /\ result.calls[k + 1].state = e.state
                    /\ result.calls[k + 1].value = PyStr(Message(e.converter))
                    /\ e.error = result.calls[k + 1].out
        /\ Cardinality(AllTranslations) =
              Cardinality({k \in MessageCalls : result.calls[k].error # None})

\* C20 witness: test_isinstance(list) invoked on 1 with a state that
\* translates called state._ once, on the message with the class already
\* substituted, and returned its translation.
C20_Witness ==
    /\ Called /\ converter = test_isinstance("list")
    /\ value = PyInt(1) /\ state = custom_state
    /\ Len(result.calls) = 2
    /\ result.calls[2].converter = Underscore
    /\ result.calls[2].value = PyStr("Value is not an instance of list")
    /\ result.value = None
    /\ result.error = PyStr("fr:Value is not an instance of list")

\* C20 witness for 'Unexpected item': a structured_sequence invoked on a
\* list longer than its converters called state._ for the extra position.
C20_UnexpectedItem ==
    /\ SequenceReturned /\ converter.dflt = NoConverter /\ ExtraPositions # {}
    /\ \E k \in MessageCalls :
          /\ result.calls[k].converter = fail("Unexpected item")
          /\ TranslationsOf(k) = {k + 1}

\* C21: two invocations of the same converter with the same value and the
\* same state return the same (value, error), whatever was invoked between
\* them.
C21_SameResult ==
    \A i \in 1..Len(history) : \A j \in 1..Len(history) :
        (history[i].value = history[j].value /\ history[i].state = history[j].state)
            => history[i].outcome = history[j].outcome

\* C21 witness: a structured_mapping without default was invoked on {},
\* then on a mapping with an unknown key, then on {} again, and returned
\* for {} the second time what it returned the first time.
C21_Witness ==
    /\ Len(history) = 3
    /\ converter.op = "structured_mapping" /\ converter.dflt = NoConverter
    /\ history[1].value = PyDict(EmptyMapping)
    /\ history[2].value = PyDict([name \in {"z"} |-> PyInt(2)])
    /\ history[2].outcome[2] # None
    /\ history[3].value = history[1].value /\ history[3].state = history[1].state
    /\ history[3].outcome = history[1].outcome

\* cleanup_line was invoked on a string.
LineCleaned == Called /\ converter = cleanup_line /\ value.tag = "unicode"

\* C22: cleanup_line applied to the value cleanup_line returned for a
\* string returns that value again, without error: the stripped string, or
\* None when the string was empty or made of spaces.
C22_CleanupLineIdempotent ==
    LineCleaned =>
        /\ result.raised = "None" /\ result.error = None
        /\ Outcome(Call(cleanup_line, result.value, state)) = Outcome(result)

\* C22 witness: cleanup_line returned None for a string of two spaces and
\* 'a' for ' a ', and returns the same for None and for 'a'.
C22_Witness ==
    /\ LineCleaned /\ value = PyUnicode(<<PyStr(" "), PyStr(" ")>>)
    /\ result.value = None
    /\ Call(cleanup_line, None, state).value = None
    /\ Call(cleanup_line, PyUnicode(<<PyStr(" "), PyStr("a"), PyStr(" ")>>), state).value
          = PyUnicode(<<PyStr("a")>>)

\* An item_or_sequence was invoked on a container of its constructor type
\* holding one item, which its converter converts, without error, to a
\* value that is not a list, a set or a tuple.
SingletonGiven ==
    /\ Called /\ converter \in ItemOrSequenceConverters
    /\ value.tag = ItemConstructor /\ Len(value.items) = 1
    /\ DirectItem.raised = "None" /\ DirectItem.error = None
    /\ ~IsContainer(DirectItem.value)

\* C23: for a list, a tuple or a set holding one such item, item_or_sequence
\* returns (the converted item, None) and raises nothing.
C23_SingletonEveryConstructor ==
    SingletonGiven =>
        /\ result.raised = "None"
        /\ result.value = DirectItem.value
        /\ result.error = None

\* C23, for lists and tuples: the single converted item is returned bare.
C23_ListOrTuple ==
    (SingletonGiven /\ ItemConstructor \in {"list", "tuple"}) =>
        /\ result.raised = "None"
        /\ result.value = DirectItem.value
        /\ result.error = None

\* C23, for sets: the call raises TypeError, the set being indexed.
C23_SetRaises ==
    (SingletonGiven /\ ItemConstructor = "set" /\ DirectItem.value # None) =>
        result.raised = "TypeError"

\* The converter as it was constructed: the one of the first invocation.
Constructed == history[1].converter
\* The names a structured_mapping built as Constructed converts for the
\* value of the latest invocation, and the number of positions a
\* structured_sequence built as Constructed converts for it.
ConstructedNames ==
    IF Constructed.dflt = Ignore THEN DOMAIN Constructed.table
    ELSE (DOMAIN Constructed.table) \cup (DOMAIN value.map)
ConstructedLength ==
    IF Constructed.dflt = Ignore \/ Len(value.items) <= Len(Constructed.converters)
    THEN Len(Constructed.converters)
    ELSE Len(value.items)

SequenceConfigurations ==
    SeqsUpTo(SequenceEntries, MaxLen) \cup {<<noop_, NoConverter, require_>>}
MappingConfigurations ==
    {[name \in Names |-> IF name = "a" THEN ca ELSE cb] :
        ca \in MappingEntriesA, cb \in MappingEntriesB}
\* A configured table without its None entries.
ConfiguredKeys(table) == {name \in DOMAIN table : table[name] # NoConverter}
Configured(table) == [name \in ConfiguredKeys(table) |-> table[name]]

\* C25: a structured_sequence configured with a list holding None entries
\* returns what the one configured with the list without them returns, and
\* converts position i with entry i of the list without them, the later
\* positions with the converter of the extra positions; a structured_mapping
\* configured with None for a key returns what the one configured without
\* that key returns, the key being converted as an unknown key.
C25_NoneEntriesRemoved ==
    /\ \A cs \in SequenceConfigurations :
          (/\ Called /\ converter.op = "structured_sequence"
           /\ converter = structured_sequence(cs, converter.constructor, converter.dflt,
                                              converter.keep_empty)) =>
              /\ Outcome(result) =
                    Outcome(Call(structured_sequence(WithoutNone(cs), converter.constructor,
                                     converter.dflt, converter.keep_empty), value, state))
              /\ (value # None /\ result.raised = "None") =>
                    /\ Len(DirectCalls) >= Len(WithoutNone(cs))
                    /\ \A i \in 1..Len(DirectCalls) :
                          DirectCalls[i].converter =
                              IF i <= Len(WithoutNone(cs)) THEN WithoutNone(cs)[i]
                              ELSE IF converter.dflt = NoConverter
                              THEN fail("Unexpected item")
                              ELSE converter.dflt
    /\ \A table \in MappingConfigurations :
          (/\ Called /\ converter.op = "structured_mapping"
           /\ converter = structured_mapping(table, converter.constructor, converter.dflt,
                                             converter.keep_empty)) =>
              /\ Outcome(result) =
                    Outcome(Call(structured_mapping(Configured(table), converter.constructor,
                                     converter.dflt, converter.keep_empty), value, state))
              /\ (value # None /\ result.raised = "None") =>
                    \A k \in 1..Len(DirectCalls) : DirectCalls[k].converter # NoConverter
              /\ (value # None /\ result.raised = "None" /\ converter.dflt = NoConverter) =>
                    \A name \in (DOMAIN table) \ ConfiguredKeys(table) :
                       name \in DOMAIN value.map =>
                          /\ result.error # None
                          /\ name \in DOMAIN result.error.map
                          /\ result.error.map[name] =
                                PyStr(Translate(state, "Unexpected item"))

\* C25 witness: structured_sequence([noop, None, require]) on [1, None, 1]
\* converted position 1 with require and got 'Unexpected item' for
\* position 2: ([1, None, None], {1: 'Missing value', 2: 'Unexpected item'}).
C25_Witness ==
    /\ Called /\ state = default_state
    /\ converter = structured_sequence(<<noop_, NoConverter, require_>>, "list",
                                       NoConverter, FALSE)
    /\ value = PyList(<<PyInt(1), None, PyInt(1)>>)
    /\ DirectCalls[2].converter = require_
    /\ result.value = PyList(<<PyInt(1), None, None>>)
    /\ DOMAIN result.error.imap = {1, 2}
    /\ result.error.imap[1] = PyStr("Missing value")
    /\ result.error.imap[2] = PyStr("Unexpected item")

\* C25 witness for mappings: structured_mapping({a: None, b: noop}) on
\* {a: 1} returned (None, {a: 'Unexpected item'}).
C25_MappingWitness ==
    /\ Called /\ state = default_state /\ converter.op = "structured_mapping"
    /\ converter.dflt = NoConverter /\ DOMAIN converter.table = {"b"}
    /\ value = PyDict([name \in {"a"} |-> PyInt(1)])
    /\ result.value = None
    /\ result.error = PyDict([name \in {"a"} |-> PyStr("Unexpected item")])

====
